---- MODULE Spec2Model ----
(***************************************************************************)
(* semgrep-pretty-report: one run of main() (src/semgrep_pretty_report/    *)
(* __main__.py) driving SemgrepReportGenerator.generate_report             *)
(* (src/semgrep_pretty_report/semgrep_report.py): validate the input file, *)
(* load it, normalize it into a SemgrepReport, generate the HTML, write    *)
(* the output file.                                                        *)
(*                                                                         *)
(* Representation of JSON / Python values:                                 *)
(*   dict            a function; k \in DOMAIN d is "k in d"                *)
(*   list            a sequence                                            *)
(*   str             a TLA+ string; a path is a sequence of character      *)
(*                   codes, because paths are ordered by the sort          *)
(*   Optional[str]   None is {}, the string s is {s}                       *)
(*   version         JStr(s) or JNum(n): a JSON document may carry either  *)
(*   text            a sequence of pieces: Lit(s), Dec(n) or Json(v), a    *)
(*                   placeholder of the template being one piece, and a    *)
(*                   string of the document being one piece as well        *)
(*   JSON text       its syntax tree: JsonNull, JsonStr, JsonInt, arrays   *)
(*                   and objects; an object made from a dict literal is    *)
(*                   the sequence of its <<key, value>> members            *)
(***************************************************************************)
EXTENDS Integers, Sequences, FiniteSets, TLC

VARIABLES
    input,      \* the input file: missing, not JSON, or a JSON document
    outFile,    \* the output file on disk
    pc,         \* position of the run
    data,       \* generate_report's local `data`
    report,     \* generate_report's local `report`
    html,       \* generate_report's local `html_content`
    error,      \* the exception that ended the run, if any
    handles     \* the file objects that are open

vars == <<input, outFile, pc, data, report, html, error, handles>>

-----------------------------------------------------------------------------
(* Python values *)

None == {}
Some(s) == {s}
EmptyDict == << >>
EmptyList == << >>
JStr(s) == [str |-> s]
JNum(n) == [num |-> n]
IsStr(v) == "str" \in DOMAIN v

\* dict.get(k, default)
Get(d, k, default) == IF k \in DOMAIN d THEN d[k] ELSE default

\* d without key k
Without(d, k) == [f \in DOMAIN d \ {k} |-> d[f]]

Ok(v) == [ok |-> TRUE, val |-> v]
Raise(e) == [ok |-> FALSE, exc |-> e]
KeyError(k) == [type |-> "KeyError", key |-> k]
TypeError == [type |-> "TypeError"]
JSONDecodeError == [type |-> "JSONDecodeError"]
OSError == [type |-> "OSError"]

Min(a, b) == IF a <= b THEN a ELSE b

\* str < str of Python: lexicographic on the character codes
RECURSIVE StrLess(_, _)
StrLess(s, t) ==
    IF t = << >> THEN FALSE
    ELSE IF s = << >> THEN TRUE
    ELSE IF Head(s) # Head(t) THEN Head(s) < Head(t)
    ELSE StrLess(Tail(s), Tail(t))

-----------------------------------------------------------------------------
(* Finding *)

\* severity_order with 0 as the fallback of order.get
severity_order_DefaultZero(f) ==
    CASE f.severity = "ERROR" -> 0
      [] f.severity = "WARNING" -> 1
      [] f.severity = "INFO" -> 2
      [] OTHER -> 0

\* Finding.severity_order
severity_order(f) ==
    CASE f.severity = "ERROR" -> 0
      [] f.severity = "WARNING" -> 1
      [] f.severity = "INFO" -> 2
      [] OTHER -> 3

\* Finding.confidence_order
confidence_order(f) ==
    CASE f.confidence = "HIGH" -> 0
      [] f.confidence = "MEDIUM" -> 1
      [] f.confidence = "LOW" -> 2
      [] OTHER -> 3

\* the required keys looked up with extra["message"] first
MissingKey_MessageFirst(result) ==
    LET extra == Get(result, "extra", EmptyDict) IN
    IF "message" \notin DOMAIN extra THEN Some("message")
    ELSE IF "check_id" \notin DOMAIN result THEN Some("check_id")
    ELSE IF "path" \notin DOMAIN result THEN Some("path")
    ELSE IF "start" \notin DOMAIN result THEN Some("start")
    ELSE IF "line" \notin DOMAIN result["start"] THEN Some("line")
    ELSE IF "end" \notin DOMAIN result THEN Some("end")
    ELSE IF "line" \notin DOMAIN result["end"] THEN Some("line")
    ELSE None

\* The first required key _parse_finding fails on, in the order the keyword
\* arguments of Finding(...) are evaluated; None when all are present.
MissingKey(result) ==
    LET extra == Get(result, "extra", EmptyDict) IN
    IF "check_id" \notin DOMAIN result THEN Some("check_id")
    ELSE IF "path" \notin DOMAIN result THEN Some("path")
    ELSE IF "start" \notin DOMAIN result THEN Some("start")
    ELSE IF "line" \notin DOMAIN result["start"] THEN Some("line")
    ELSE IF "end" \notin DOMAIN result THEN Some("end")
    ELSE IF "line" \notin DOMAIN result["end"] THEN Some("line")
    ELSE IF "message" \notin DOMAIN extra THEN Some("message")
    ELSE None

\* _parse_finding with metadata = extra["metadata"]: no default for the
\* metadata object
_parse_finding_MetadataRequired(result) ==
    LET extra == Get(result, "extra", EmptyDict)
        missing == MissingKey(result)
    IN  IF missing # None
        THEN Raise(KeyError(CHOOSE k \in missing : TRUE))
        ELSE IF "metadata" \notin DOMAIN extra
        THEN Raise(KeyError("metadata"))
        ELSE LET metadata == extra["metadata"] IN
             Ok([check_id |-> result["check_id"],
                 path |-> result["path"],
                 start_line |-> result["start"]["line"],
                 end_line |-> result["end"]["line"],
                 severity |-> Get(extra, "severity", "UNKNOWN"),
                 confidence |-> Get(metadata, "confidence", "UNKNOWN"),
                 message |-> extra["message"],
                 category |-> Get(metadata, "category", "unknown"),
                 technology |-> Get(metadata, "technology", EmptyList),
                 cwe |-> Get(metadata, "cwe", EmptyList),
                 owasp |-> Get(metadata, "owasp", EmptyList),
                 references |-> Get(metadata, "references", EmptyList),
                 shortlink |-> Get(metadata, "shortlink", None),
                 lines |-> Get(extra, "lines", None),
                 fingerprint |-> Get(extra, "fingerprint", None)])

\* _parse_finding with end_line read from start.line
_parse_finding_EndFromStart(result) ==
    LET extra == Get(result, "extra", EmptyDict)
        metadata == Get(extra, "metadata", EmptyDict)
        missing == MissingKey(result)
    IN  IF missing # None
        THEN Raise(KeyError(CHOOSE k \in missing : TRUE))
        ELSE Ok([check_id |-> result["check_id"],
                 path |-> result["path"],
                 start_line |-> result["start"]["line"],
                 end_line |-> result["start"]["line"],
                 severity |-> Get(extra, "severity", "UNKNOWN"),
                 confidence |-> Get(metadata, "confidence", "UNKNOWN"),
                 message |-> extra["message"],
                 category |-> Get(metadata, "category", "unknown"),
                 technology |-> Get(metadata, "technology", EmptyList),
                 cwe |-> Get(metadata, "cwe", EmptyList),
                 owasp |-> Get(metadata, "owasp", EmptyList),
                 references |-> Get(metadata, "references", EmptyList),
                 shortlink |-> Get(metadata, "shortlink", None),
                 lines |-> Get(extra, "lines", None),
                 fingerprint |-> Get(extra, "fingerprint", None)])

\* SemgrepReportGenerator._parse_finding
_parse_finding(result) ==
    LET extra == Get(result, "extra", EmptyDict)
        metadata == Get(extra, "metadata", EmptyDict)
        missing == MissingKey(result)
    IN  IF missing # None
        THEN Raise(KeyError(CHOOSE k \in missing : TRUE))
        ELSE Ok([check_id |-> result["check_id"],
                 path |-> result["path"],
                 start_line |-> result["start"]["line"],
                 end_line |-> result["end"]["line"],
                 severity |-> Get(extra, "severity", "UNKNOWN"),
                 confidence |-> Get(metadata, "confidence", "UNKNOWN"),
                 message |-> extra["message"],
                 category |-> Get(metadata, "category", "unknown"),
                 technology |-> Get(metadata, "technology", EmptyList),
                 cwe |-> Get(metadata, "cwe", EmptyList),
                 owasp |-> Get(metadata, "owasp", EmptyList),
                 references |-> Get(metadata, "references", EmptyList),
                 shortlink |-> Get(metadata, "shortlink", None),
                 lines |-> Get(extra, "lines", None),
                 fingerprint |-> Get(extra, "fingerprint", None)])

-----------------------------------------------------------------------------
(* list.sort(key=lambda f: (f.severity_order, f.path, f.start_line)) *)

SortKey(f) == <<severity_order(f), f.path, f.start_line>>

\* the comparison of a key without start_line
KeyLess_NoLine(a, b) ==
    IF a[1] # b[1] THEN a[1] < b[1]
    ELSE StrLess(a[2], b[2])

\* tuple < tuple of Python on two sort keys
KeyLess(a, b) ==
    IF a[1] # b[1] THEN a[1] < b[1]
    ELSE IF a[2] # b[2] THEN StrLess(a[2], b[2])
    ELSE a[3] < b[3]

\* an insertion that puts f before the elements of equal key
RECURSIVE Insert_BeforeEqual(_, _)
Insert_BeforeEqual(s, f) ==
    IF s = << >> THEN <<f>>
    ELSE IF ~KeyLess(SortKey(Head(s)), SortKey(f)) THEN <<f>> \o s
    ELSE <<Head(s)>> \o Insert_BeforeEqual(Tail(s), f)

\* insert f into the sorted sequence s behind every element that is not
\* greater: equal keys keep their order of arrival (list.sort is stable)
RECURSIVE Insert(_, _)
Insert(s, f) ==
    IF s = << >> THEN <<f>>
    ELSE IF KeyLess(SortKey(f), SortKey(Head(s))) THEN <<f>> \o s
    ELSE <<Head(s)>> \o Insert(Tail(s), f)

RECURSIVE SortFindings(_)
SortFindings(s) ==
    IF s = << >> THEN << >>
    ELSE Insert(SortFindings(SubSeq(s, 1, Len(s) - 1)), s[Len(s)])

-----------------------------------------------------------------------------
(* SemgrepReportGenerator._parse_semgrep_data *)

\* the loop with per-record recovery: a record that fails is skipped
RECURSIVE ParseResults_SkipBad(_, _)
ParseResults_SkipBad(results, acc) ==
    IF results = << >> THEN Ok(acc)
    ELSE LET r == _parse_finding(Head(results)) IN
         IF ~r.ok THEN ParseResults_SkipBad(Tail(results), acc)
         ELSE ParseResults_SkipBad(Tail(results), Append(acc, r.val))

\* the loop `for result in data.get("results", []): append(_parse_finding)`:
\* the first KeyError leaves the loop and the function
RECURSIVE ParseResults(_, _)
ParseResults(results, acc) ==
    IF results = << >> THEN Ok(acc)
    ELSE LET r == _parse_finding(Head(results)) IN
         IF ~r.ok THEN r
         ELSE ParseResults(Tail(results), Append(acc, r.val))

_parse_semgrep_data(d) ==
    LET scanned == Get(Get(d, "paths", EmptyDict), "scanned", EmptyList)
        parsed == ParseResults(Get(d, "results", EmptyList), << >>)
    IN  IF ~parsed.ok THEN parsed
        ELSE Ok([version |-> Get(d, "version", JStr("unknown")),
                 findings |-> SortFindings(parsed.val),
                 errors |-> Get(d, "errors", EmptyList),
                 scanned_paths |-> scanned,
                 total_files_scanned |-> Len(scanned),
                 scan_time |-> Get(d, "time", EmptyDict)])

-----------------------------------------------------------------------------
(* SemgrepReport.summary_stats *)

TopN == 5

\* a Counter fed the distinct values only: Counter(set(values))
RECURSIVE Counter_OfSet(_)
Counter_OfSet(values) ==
    IF values = << >> THEN << >>
    ELSE LET c == Counter_OfSet(SubSeq(values, 1, Len(values) - 1))
             v == values[Len(values)]
         IN  IF \E i \in 1..Len(c) : c[i][1] = v
             THEN c
             ELSE Append(c, <<v, 1>>)

\* a Counter that counts a repeated value only when it follows itself
RECURSIVE Counter_AdjacentOnly(_)
Counter_AdjacentOnly(values) ==
    IF values = << >> THEN << >>
    ELSE LET c == Counter_AdjacentOnly(SubSeq(values, 1, Len(values) - 1))
             v == values[Len(values)]
         IN  IF \E i \in 1..Len(c) : c[i][1] = v
             THEN IF values[Len(values) - 1] = v
                  THEN [i \in 1..Len(c) |->
                          IF c[i][1] = v THEN <<v, c[i][2] + 1>> ELSE c[i]]
                  ELSE c
             ELSE Append(c, <<v, 1>>)

\* a Counter that puts each new value in front of the ones it holds
RECURSIVE Counter_NewestFirst(_)
Counter_NewestFirst(values) ==
    IF values = << >> THEN << >>
    ELSE LET c == Counter_NewestFirst(SubSeq(values, 1, Len(values) - 1))
             v == values[Len(values)]
         IN  IF \E i \in 1..Len(c) : c[i][1] = v
             THEN [i \in 1..Len(c) |->
                     IF c[i][1] = v THEN <<v, c[i][2] + 1>> ELSE c[i]]
             ELSE <<<<v, 1>>>> \o c

\* collections.Counter(values): <<value, count>> pairs in first-seen order
\* (a Counter is a dict, and a dict keeps insertion order)
RECURSIVE Counter(_)
Counter(values) ==
    IF values = << >> THEN << >>
    ELSE LET c == Counter(SubSeq(values, 1, Len(values) - 1))
             v == values[Len(values)]
         IN  IF \E i \in 1..Len(c) : c[i][1] = v
             THEN [i \in 1..Len(c) |->
                     IF c[i][1] = v THEN <<v, c[i][2] + 1>> ELSE c[i]]
             ELSE Append(c, <<v, 1>>)

\* an insertion that puts item before the items of equal count
RECURSIVE InsertByCount_BeforeEqual(_, _)
InsertByCount_BeforeEqual(s, item) ==
    IF s = << >> THEN <<item>>
    ELSE IF item[2] >= Head(s)[2] THEN <<item>> \o s
    ELSE <<Head(s)>> \o InsertByCount_BeforeEqual(Tail(s), item)

\* insert item into s, sorted by descending count, behind every item whose
\* count is not smaller
RECURSIVE InsertByCount(_, _)
InsertByCount(s, item) ==
    IF s = << >> THEN <<item>>
    ELSE IF item[2] > Head(s)[2] THEN <<item>> \o s
    ELSE <<Head(s)>> \o InsertByCount(Tail(s), item)

RECURSIVE SortByCount(_)
SortByCount(c) ==
    IF c = << >> THEN << >>
    ELSE InsertByCount(SortByCount(SubSeq(c, 1, Len(c) - 1)), c[Len(c)])

\* the first n items in insertion order: items()[:n], not sorted by count
most_common_Unsorted(c, n) == SubSeq(c, 1, Min(n, Len(c)))

\* Counter.most_common(n): sorted(items, key=count, reverse=True)[:n]
most_common(c, n) == SubSeq(SortByCount(c), 1, Min(n, Len(c)))

Field(findings, name) == [i \in 1..Len(findings) |-> findings[i][name]]

\* A JSON array found where the other records have a string. A list has no
\* hash: it cannot be a key of a Counter. The strings of the model stand for
\* the strings of the document, and this one value stands for the array.
ListValue == "['a']"

Hashable(v) == v # ListValue

\* the values a Counter is fed are hashed one by one
AllHashable(values) == \A i \in 1..Len(values) : Hashable(values[i])

\* summary_stats with one file counted per finding: len(list(...)), no set
summary_stats_FilesNotDeduplicated(r) ==
    IF \E name \in {"severity", "confidence", "category", "check_id"} :
           ~AllHashable(Field(r.findings, name))
    THEN Raise(TypeError)
    ELSE Ok([total_findings |-> Len(r.findings),
             total_errors |-> Len(r.errors),
             files_scanned |-> r.total_files_scanned,
             files_affected |-> Len(r.findings),
             severity_breakdown |-> Counter(Field(r.findings, "severity")),
             confidence_breakdown |->
                 Counter(Field(r.findings, "confidence")),
             category_breakdown |-> Counter(Field(r.findings, "category")),
             top_issues |->
                 most_common(Counter(Field(r.findings, "check_id")), TopN)])

\* The property summary_stats. Counter(...) raises TypeError at the first
\* value that cannot be hashed; the paths of the model are strings.
summary_stats(r) ==
    IF \E name \in {"severity", "confidence", "category", "check_id"} :
           ~AllHashable(Field(r.findings, name))
    THEN Raise(TypeError)
    ELSE Ok([total_findings |-> Len(r.findings),
             total_errors |-> Len(r.errors),
             files_scanned |-> r.total_files_scanned,
             files_affected |->
                 Cardinality({r.findings[i].path : i \in 1..Len(r.findings)}),
             severity_breakdown |-> Counter(Field(r.findings, "severity")),
             confidence_breakdown |->
                 Counter(Field(r.findings, "confidence")),
             category_breakdown |-> Counter(Field(r.findings, "category")),
             top_issues |->
                 most_common(Counter(Field(r.findings, "check_id")), TopN)])

-----------------------------------------------------------------------------
(* json.dumps *)

\* JSON text is modelled by its syntax tree: null, a string, a number, an
\* array, and an object written as its <<key, value>> members in order.
JsonNull == [null |-> TRUE]

JsonStr(s) == [jstr |-> s]

JsonInt(n) == [num |-> n]

JsonOpt(o) == IF o = None THEN JsonNull ELSE JsonStr(CHOOSE s \in o : TRUE)

JsonList(l) == [arr |-> [i \in 1..Len(l) |-> JsonStr(l[i])]]

JsonCategory(c) ==
    IF Hashable(c) THEN JsonStr(c) ELSE [arr |-> <<JsonStr("a")>>]

\* the dict literal of _generate_html omits the keys whose value is None
DumpsFinding_SkipNone(f) ==
    SelectSeq(
        << <<"check_id", JsonStr(f.check_id)>>,
           <<"path", JsonStr(f.path)>>,
           <<"start_line", JsonInt(f.start_line)>>,
           <<"end_line", JsonInt(f.end_line)>>,
           <<"severity", JsonStr(f.severity)>>,
           <<"confidence", JsonStr(f.confidence)>>,
           <<"message", JsonStr(f.message)>>,
           <<"category", JsonCategory(f.category)>>,
           <<"technology", JsonList(f.technology)>>,
           <<"cwe", JsonList(f.cwe)>>,
           <<"owasp", JsonList(f.owasp)>>,
           <<"references", JsonList(f.references)>>,
           <<"shortlink", JsonOpt(f.shortlink)>>,
           <<"lines", JsonOpt(f.lines)>>,
           <<"fingerprint", JsonOpt(f.fingerprint)>> >>,
        LAMBDA member : member[2] # JsonNull)

\* json.dumps of the dict literal built for one finding: a dict keeps the
\* order in which the literal names its keys
DumpsFinding(f) ==
    << <<"check_id", JsonStr(f.check_id)>>,
       <<"path", JsonStr(f.path)>>,
       <<"start_line", JsonInt(f.start_line)>>,
       <<"end_line", JsonInt(f.end_line)>>,
       <<"severity", JsonStr(f.severity)>>,
       <<"confidence", JsonStr(f.confidence)>>,
       <<"message", JsonStr(f.message)>>,
       <<"category", JsonCategory(f.category)>>,
       <<"technology", JsonList(f.technology)>>,
       <<"cwe", JsonList(f.cwe)>>,
       <<"owasp", JsonList(f.owasp)>>,
       <<"references", JsonList(f.references)>>,
       <<"shortlink", JsonOpt(f.shortlink)>>,
       <<"lines", JsonOpt(f.lines)>>,
       <<"fingerprint", JsonOpt(f.fingerprint)>> >>

\* json.dumps([{...} for f in report.findings])
DumpsFindings(findings) ==
    [i \in 1..Len(findings) |-> DumpsFinding(findings[i])]

\* json.dumps of a raw error object, whose values are strings in the model
DumpsError(e) == [k \in DOMAIN e |-> JsonStr(e[k])]

\* json.dumps of the first error only
DumpsErrors_FirstOnly(errors) ==
    [i \in 1..Min(1, Len(errors)) |-> DumpsError(errors[i])]

\* json.dumps(report.errors)
DumpsErrors(errors) == [i \in 1..Len(errors) |-> DumpsError(errors[i])]

-----------------------------------------------------------------------------
(* SemgrepReportGenerator._generate_html *)

\* Text is modelled as a sequence of pieces: a piece of literal text, the
\* decimal text of a number, or a JSON text. A placeholder of the template
\* is a piece of its own, so that str.replace acts on whole pieces.
Lit(s) == [lit |-> s]

Dec(n) == [dec |-> n]

Json(v) == [json |-> v]

\* the two JSON texts of the page: the array of the objects written from
\* the dict literals of the findings, and the array of the raw errors
JsonFindings(payload) == [findings |-> payload]

JsonErrors(payload) == [errors |-> payload]

\* the positions at which old occurs in h
Occurrences(h, old) ==
    {i \in 1..(Len(h) - Len(old) + 1) :
        \A j \in 1..Len(old) : h[i + j - 1] = old[j]}

\* the least position of a non-empty set of positions
First(positions) == CHOOSE i \in positions : \A j \in positions : i <= j

\* h from position `from` on, with new in place of the occurrences of old
\* that start at or after `from` and do not overlap an earlier one
RECURSIVE ReplaceFrom(_, _, _, _, _)
ReplaceFrom(h, from, positions, width, new) ==
    IF \A i \in positions : i < from
    THEN SubSeq(h, from, Len(h))
    ELSE SubSeq(h, from, First({i \in positions : i >= from}) - 1)
         \o new
         \o ReplaceFrom(h, First({i \in positions : i >= from}) + width,
                        positions, width, new)

\* the occurrences of old among the pieces of h
ReplacePieces(h, old, new) ==
    ReplaceFrom(h, 1, Occurrences(h, old), Len(old), new)


RECURSIVE Replace(_, _, _)

\* old occurs in the JSON value v. Once substituted, a JSON text is text of
\* the page like any other: str.replace searches its strings too. The
\* strings of the model are whole pieces, so a string holds old when it is
\* old; text that took the place of a string is searched piece by piece.
Found(v, old) ==
    IF "jstr" \in DOMAIN v THEN Len(old) = 1 /\ old[1] = Lit(v.jstr)
    ELSE IF "jtext" \in DOMAIN v THEN v.jtext # << >>
    ELSE IF "arr" \in DOMAIN v
    THEN \E i \in 1..Len(v.arr) : Len(old) = 1 /\ old[1] = Lit(v.arr[i].jstr)
    ELSE FALSE

\* old -> new in the strings, at the given positions, of a JSON array
RECURSIVE ReplaceInList(_, _, _)
ReplaceInList(l, at, new) ==
    IF at = {} THEN l
    ELSE ReplaceInList([l EXCEPT ![First(at)] = [jtext |-> new]],
                       at \ {First(at)}, new)

\* old -> new inside a JSON value: what stands in the place of a string
\* that was old is text, not a string any more
ReplaceInValue(v, old, new) ==
    IF ~Found(v, old) THEN v
    ELSE IF "jstr" \in DOMAIN v THEN [jtext |-> new]
    ELSE IF "jtext" \in DOMAIN v THEN [jtext |-> Replace(v.jtext, old, new)]
    ELSE [arr |-> ReplaceInList(
                      v.arr,
                      {i \in 1..Len(v.arr) : old[1] = Lit(v.arr[i].jstr)},
                      new)]

\* the members of a serialized finding in which old occurs; the paths of
\* the model are sequences of character codes, not pieces, and are skipped
FoundInFinding(members, old) ==
    {k \in 1..Len(members) :
        members[k][1] # "path" /\ Found(members[k][2], old)}

\* old -> new inside the members, at the given positions, of a finding
RECURSIVE ReplaceInFinding(_, _, _, _)
ReplaceInFinding(members, at, old, new) ==
    IF at = {} THEN members
    ELSE ReplaceInFinding(
             [members EXCEPT
                 ![First(at)][2] =
                     ReplaceInValue(members[First(at)][2], old, new)],
             at \ {First(at)}, old, new)

\* old -> new inside the serialized findings at the given positions
RECURSIVE ReplaceInFindings(_, _, _, _)
ReplaceInFindings(payload, at, old, new) ==
    IF at = {} THEN payload
    ELSE ReplaceInFindings(
             [payload EXCEPT
                 ![First(at)] =
                     ReplaceInFinding(
                         payload[First(at)],
                         FoundInFinding(payload[First(at)], old), old, new)],
             at \ {First(at)}, old, new)

\* old -> new inside the values of one serialized error, for the given keys
RECURSIVE ReplaceInError(_, _, _, _)
ReplaceInError(e, keys, old, new) ==
    IF keys = {} THEN e
    ELSE ReplaceInError(
             [e EXCEPT ![CHOOSE k \in keys : TRUE] =
                 ReplaceInValue(e[CHOOSE k \in keys : TRUE], old, new)],
             keys \ {CHOOSE k \in keys : TRUE}, old, new)

\* old -> new inside the serialized errors at the given positions
RECURSIVE ReplaceInErrors(_, _, _, _)
ReplaceInErrors(payload, at, old, new) ==
    IF at = {} THEN payload
    ELSE ReplaceInErrors(
             [payload EXCEPT
                 ![First(at)] =
                     ReplaceInError(
                         payload[First(at)],
                         {k \in DOMAIN payload[First(at)] :
                             Found(payload[First(at)][k], old)},
                         old, new)],
             at \ {First(at)}, old, new)

\* old -> new inside a JSON piece of the page
ReplaceInPiece(piece, old, new) ==
    IF "findings" \in DOMAIN piece.json
    THEN Json(JsonFindings(
             ReplaceInFindings(
                 piece.json.findings,
                 {i \in 1..Len(piece.json.findings) :
                     FoundInFinding(piece.json.findings[i], old) # {}},
                 old, new)))
    ELSE Json(JsonErrors(
             ReplaceInErrors(
                 piece.json.errors,
                 {i \in 1..Len(piece.json.errors) :
                     \E k \in DOMAIN piece.json.errors[i] :
                         Found(piece.json.errors[i][k], old)},
                 old, new)))

\* old -> new inside the JSON pieces of h, which are at the given positions
RECURSIVE ReplaceInside(_, _, _, _)
ReplaceInside(h, at, old, new) ==
    IF at = {} THEN h
    ELSE ReplaceInside(
             [h EXCEPT ![First(at)] = ReplaceInPiece(h[First(at)], old, new)],
             at \ {First(at)}, old, new)

\* html.replace(old, new): every occurrence of old, from left to right,
\* the replacement not being searched again
Replace(h, old, new) ==
    IF h = << >> THEN h
    ELSE ReplacePieces(
             ReplaceInside(h, {i \in 1..Len(h) : "json" \in DOMAIN h[i]},
                           old, new),
             old, new)

\* the category block of the template, lines 908-910
CategoryBlock ==
    <<Lit("{% for category in stats.category_breakdown.keys() %}"),
      Lit("<option value=\"{{ category }}\">{{ category.title() }}</option>"),
      Lit("{% endfor %}")>>

\* the row of the errors table in the template, lines 963-967
ErrorRowBlock ==
    <<Lit("<tr>"), Lit("{{ error.type }}"), Lit("{{ error.path }}"),
      Lit("{{ error.message }}"), Lit("</tr>")>>

\* the template, reduced to its placeholders and the text around them
_get_template_html ==
    <<Lit("<!DOCTYPE html>"),
      Lit("{{ generated_at[:19].replace('T', ' ') }}"),
      Lit("{{ stats.total_findings }}"),
      Lit("{{ stats.files_scanned }}"),
      Lit("{{ stats.files_affected }}"),
      Lit("{{ stats.severity_breakdown.get('ERROR', 0) }}"),
      Lit("{{ stats.severity_breakdown.get('WARNING', 0) }}"),
      Lit("{{ stats.severity_breakdown.get('INFO', 0) }}"),
      Lit("Interactive charts would be displayed here"),
      Lit("<select id=\"category-filter\">")>>
    \o CategoryBlock \o
    <<Lit("</select>"),
      Lit("<h3>Findings ("),
      Lit("{{ stats.total_findings }}"),
      Lit("{% if report.errors %}"),
      Lit("<h3>Scan Errors ("),
      Lit("{{ report.errors|length }}"),
      Lit("<thead>"),
      Lit("{% for error in report.errors %}")>>
    \o ErrorRowBlock \o
    <<Lit("{% endfor %}"),
      Lit("{% endif %}"),
      Lit("Semgrep Pretty Report v"),
      Lit("{{ report.version }}"),
      Lit("Semgrep version: "),
      Lit("{{ report.version }}"),
      Lit("const findings = "),
      Lit("{{ findings_json|safe }}"),
      Lit("const errors = "),
      Lit("{{ errors_json|safe }}"),
      Lit("</html>")>>

\* str.title() on the categories of the model
Title(c) ==
    CASE c = "security" -> "Security"
      [] c = "correctness" -> "Correctness"
      [] c = "best-practice" -> "Best-Practice"
      [] c = "unknown" -> "Unknown"
      [] OTHER -> c

\* count of value in a breakdown: dict.get(value, 0)
CountOf(breakdown, value) ==
    IF \E i \in 1..Len(breakdown) : breakdown[i][1] = value
    THEN (CHOOSE item \in {breakdown[i] : i \in 1..Len(breakdown)} :
              item[1] = value)[2]
    ELSE 0

\* `for category in stats["category_breakdown"].keys()`: one option each
RECURSIVE CategoryOptions(_)
CategoryOptions(breakdown) ==
    IF breakdown = << >> THEN << >>
    ELSE LET category == Head(breakdown)[1]
         IN  <<Lit("<option value=\""), Lit(category), Lit("\">"),
               Lit(Title(category)), Lit("</option>")>>
             \o CategoryOptions(Tail(breakdown))

\* a row that leaves the cell of a missing key empty: error.get(key, '')
ErrorRow_EmptyCell(e) ==
    <<Lit("<tr>"),
      Lit(Get(e, "type", "")),
      Lit(Get(e, "path", "")),
      Lit(Get(e, "message", "")),
      Lit("</tr>")>>

\* the row of one error: error.get(key, 'Unknown') for the three cells
ErrorRow(e) ==
    <<Lit("<tr>"),
      Lit(Get(e, "type", "Unknown")),
      Lit(Get(e, "path", "Unknown")),
      Lit(Get(e, "message", "Unknown")),
      Lit("</tr>")>>

\* `for error in report.errors: errors_rows += ...`
RECURSIVE ErrorRows(_)
ErrorRows(errors) ==
    IF errors = << >> THEN << >>
    ELSE ErrorRow(Head(errors)) \o ErrorRows(Tail(errors))

\* the four marker replacements made in both branches of `if report.errors`
StripMarkers(h) ==
    Replace(Replace(Replace(Replace(h,
        <<Lit("{% if report.errors %}")>>, << >>),
        <<Lit("{% endif %}")>>, << >>),
        <<Lit("{% for error in report.errors %}")>>, << >>),
        <<Lit("{% endfor %}")>>, << >>)

\* the chart replacement: _generate_severity_chart returns a data URL, or
\* "" when matplotlib cannot be imported or fails (plot = FALSE)
ChartText(plot) ==
    IF plot
    THEN <<Lit("<img src=\""), Lit("data:image/png;base64,"),
           Lit("\" alt=\"Severity Distribution Chart\">")>>
    ELSE <<Lit("Chart generation requires matplotlib")>>

\* the replacements of _generate_html, lines 183-249, on the template
Substitute(r, st, findings_json, errors_json, plot) ==
    LET h1 == Replace(_get_template_html,
                  <<Lit("{{ findings_json|safe }}")>>,
                  <<Json(JsonFindings(findings_json))>>)
        h2 == Replace(h1,
                  <<Lit("{{ errors_json|safe }}")>>,
                  <<Json(JsonErrors(errors_json))>>)
        h3 == Replace(h2,
                  <<Lit("{{ generated_at[:19].replace('T', ' ') }}")>>,
                  <<Lit("YYYY-MM-DD HH:MM:SS")>>)
        h4 == Replace(h3,
                  <<Lit("{{ stats.total_findings }}")>>,
                  <<Dec(st.total_findings)>>)
        h5 == Replace(h4,
                  <<Lit("{{ stats.files_scanned }}")>>,
                  <<Dec(st.files_scanned)>>)
        h6 == Replace(h5,
                  <<Lit("{{ stats.files_affected }}")>>,
                  <<Dec(st.files_affected)>>)
        h7 == Replace(h6,
                  <<Lit("{{ stats.severity_breakdown.get('ERROR', 0) }}")>>,
                  <<Dec(CountOf(st.severity_breakdown, "ERROR"))>>)
        h8 == Replace(h7,
                  <<Lit("{{ stats.severity_breakdown.get('WARNING', 0) }}")>>,
                  <<Dec(CountOf(st.severity_breakdown, "WARNING"))>>)
        h9 == Replace(h8,
                  <<Lit("{{ stats.severity_breakdown.get('INFO', 0) }}")>>,
                  <<Dec(CountOf(st.severity_breakdown, "INFO"))>>)
        h10 == Replace(h9,
                  <<Lit("{{ report.errors|length }}")>>,
                  <<Dec(Len(r.errors))>>)
        h11 == Replace(h10,
                  <<Lit("{{ report.version }}")>>, <<Lit(r.version.str)>>)
        h12 == Replace(h11,
                  CategoryBlock, CategoryOptions(st.category_breakdown))
        h13 == IF r.errors # << >>
               THEN Replace(
                        Replace(StripMarkers(h12),
                            <<Lit("{{ report.errors|length }}")>>,
                            <<Dec(Len(r.errors))>>),
                        ErrorRowBlock, ErrorRows(r.errors))
               ELSE StripMarkers(h12)
    IN  Replace(h13,
            <<Lit("Interactive charts would be displayed here")>>,
            ChartText(plot))

\* the value _generate_html returns, with the stats and the two payloads
\* it was built from
Generated(r, st, findings_json, errors_json, plot) ==
    Ok([stats |-> st,
        findings_json |-> findings_json,
        errors_json |-> errors_json,
        text |-> Substitute(r, st, findings_json, errors_json, plot)])

\* _generate_html(report). The stats are computed first and json.dumps runs
\* before the template is touched; str.replace(old, new) raises TypeError
\* unless new is a str, and the version is substituted as it was read.
_generate_html(r, plot) ==
    LET stats == summary_stats(r) IN
    IF ~stats.ok THEN stats
    ELSE IF ~IsStr(r.version) THEN Raise(TypeError)
    ELSE Generated(r, stats.val, DumpsFindings(r.findings),
                   DumpsErrors(r.errors), plot)

-----------------------------------------------------------------------------
(* main and SemgrepReportGenerator.generate_report *)

\* `if not args.input_file.exists(): ... sys.exit(1)`
MainMissing ==
    /\ pc = "main"
    /\ input.kind = "missing"
    /\ pc' = "exit1"
    /\ error' = [type |-> "NotFound"]
    /\ UNCHANGED <<input, outFile, data, report, html, handles>>

\* open() of the validation raises: `except Exception` in main
MainUnreadable ==
    /\ pc = "main"
    /\ input.kind = "unreadable"
    /\ pc' = "exit1"
    /\ error' = OSError
    /\ UNCHANGED <<input, outFile, data, report, html, handles>>

\* `with open(args.input_file, 'r', encoding='utf-8') as f:` is entered
MainOpen ==
    /\ pc = "main"
    /\ input.kind \in {"invalid", "unreadable", "json"}
    /\ handles' = handles \cup {"validation"}
    /\ pc' = "validate"
    /\ UNCHANGED <<input, outFile, data, report, html, error>>

\* a validation that exits on invalid JSON without leaving the with block
MainInvalidJson_HandleLeft ==
    /\ pc = "validate"
    /\ input.kind = "invalid"
    /\ pc' = "exit1"
    /\ error' = JSONDecodeError
    /\ UNCHANGED <<input, outFile, data, report, html, handles>>

\* json.load raises JSONDecodeError: the with block closes f on the way to
\* `except json.JSONDecodeError`
MainInvalidJson ==
    /\ pc = "validate"
    /\ input.kind = "invalid"
    /\ handles' = handles \ {"validation"}
    /\ pc' = "exit1"
    /\ error' = JSONDecodeError
    /\ UNCHANGED <<input, outFile, data, report, html>>

\* f.read() raises inside json.load: f is closed, `except Exception`
MainReadFail ==
    /\ pc = "validate"
    /\ input.kind = "unreadable"
    /\ handles' = handles \ {"validation"}
    /\ pc' = "exit1"
    /\ error' = OSError
    /\ UNCHANGED <<input, outFile, data, report, html>>

\* the validation passed and its with block is left: main calls
\* generate_report
MainValidated ==
    /\ pc = "validate"
    /\ input.kind = "json"
    /\ handles' = handles \ {"validation"}
    /\ pc' = "load"
    /\ UNCHANGED <<input, outFile, data, report, html, error>>

\* `with open(json_file, 'r', encoding='utf-8') as f:` is entered
LoadOpen ==
    /\ pc = "load"
    /\ handles' = handles \cup {"input"}
    /\ pc' = "loading"
    /\ UNCHANGED <<input, outFile, data, report, html, error>>

\* the second read of the input fails: f is closed by the with block and
\* the exception reaches `except Exception` in main
LoadFail ==
    /\ pc = "loading"
    /\ handles' = handles \ {"input"}
    /\ pc' = "exit1"
    /\ error' = OSError
    /\ UNCHANGED <<input, outFile, data, report, html>>

\* `data = json.load(f)` and the end of the with block
Load ==
    /\ pc = "loading"
    /\ data' = input.doc
    /\ handles' = handles \ {"input"}
    /\ pc' = "parse"
    /\ UNCHANGED <<input, outFile, report, html, error>>

\* `report = self._parse_semgrep_data(data)`
ParseOk ==
    /\ pc = "parse"
    /\ LET r == _parse_semgrep_data(data) IN
        /\ r.ok
        /\ report' = r.val
    /\ pc' = "html"
    /\ UNCHANGED <<input, outFile, data, html, error, handles>>

\* a run that opens the output file before it normalizes
ParseFail_OutputOpened ==
    /\ pc = "parse"
    /\ LET r == _parse_semgrep_data(data) IN
        /\ ~r.ok
        /\ error' = r.exc
    /\ outFile' = "empty"
    /\ pc' = "exit1"
    /\ UNCHANGED <<input, data, report, html, handles>>

\* the KeyError of _parse_finding reaches `except Exception` in main
ParseFail ==
    /\ pc = "parse"
    /\ LET r == _parse_semgrep_data(data) IN
        /\ ~r.ok
        /\ error' = r.exc
    /\ pc' = "exit1"
    /\ UNCHANGED <<input, outFile, data, report, html, handles>>

\* a generation that drops the errors of the report once they are rendered
HtmlOk_ErrorsCleared ==
    /\ pc = "html"
    /\ \E plot \in BOOLEAN :
        \E r \in {_generate_html(report, plot)} :
            /\ r.ok
            /\ html' = r.val
    /\ report' = [report EXCEPT !.errors = << >>]
    /\ pc' = "write"
    /\ UNCHANGED <<input, outFile, data, error, handles>>

\* `html_content = self._generate_html(report)`, with or without a chart
HtmlOk ==
    /\ pc = "html"
    /\ \E plot \in BOOLEAN :
        \E r \in {_generate_html(report, plot)} :
            /\ r.ok
            /\ html' = r.val
    /\ pc' = "write"
    /\ UNCHANGED <<input, outFile, data, report, error, handles>>

\* summary_stats or a str.replace raises: `except Exception` in main. The
\* chart cannot make the generation fail: its exceptions are caught.
HtmlFail ==
    /\ pc = "html"
    /\ \E r \in {_generate_html(report, FALSE)} :
        /\ ~r.ok
        /\ error' = r.exc
    /\ pc' = "exit1"
    /\ UNCHANGED <<input, outFile, data, report, html, handles>>

\* `with open(output_file, 'w', encoding='utf-8') as f:`: open() fails and
\* leaves the file alone
WriteOpenFail ==
    /\ pc = "write"
    /\ pc' = "exit1"
    /\ error' = OSError
    /\ UNCHANGED <<input, outFile, data, report, html, handles>>

\* open() creates or truncates the file
WriteOpen ==
    /\ pc = "write"
    /\ handles' = handles \cup {"output"}
    /\ outFile' = "empty"
    /\ pc' = "writing"
    /\ UNCHANGED <<input, data, report, html, error>>

\* f.write raises, leaving what was flushed; the with block closes f
WriteFail ==
    /\ pc = "writing"
    /\ \E left \in {"empty", "partial"} : outFile' = left
    /\ handles' = handles \ {"output"}
    /\ pc' = "exit1"
    /\ error' = OSError
    /\ UNCHANGED <<input, data, report, html>>

\* `f.write(html_content)` and the end of the with block
WriteOk ==
    /\ pc = "writing"
    /\ outFile' = "complete"
    /\ handles' = handles \ {"output"}
    /\ pc' = "exit0"
    /\ UNCHANGED <<input, data, report, html, error>>

Next ==
    \/ MainMissing
    \/ MainUnreadable
    \/ MainOpen
    \/ MainInvalidJson
    \/ MainReadFail
    \/ MainValidated
    \/ LoadOpen
    \/ LoadFail
    \/ Load
    \/ ParseOk
    \/ ParseFail
    \/ HtmlOk
    \/ HtmlFail
    \/ WriteOpenFail
    \/ WriteOpen
    \/ WriteFail
    \/ WriteOk

-----------------------------------------------------------------------------
(* Inputs *)

MaxSortLen == 3
MaxParseLen == 2

Unset == [unset |-> TRUE]

\* "a", "ab", "b" as character codes
PathA == <<1>>
PathAB == <<1, 2>>
PathB == <<2>>

SeqsUpTo(S, n) == UNION {[1..k -> S] : k \in 0..n}

FullMetadata ==
    [confidence |-> "HIGH", category |-> "security",
     technology |-> <<"python">>, cwe |-> <<"CWE-79">>, owasp |-> <<"A03">>,
     references |-> <<"https://ref">>, shortlink |-> Some("https://sg.run/x")]

FullExtra ==
    [message |-> "msg", severity |-> "ERROR", lines |-> Some("eval(x)"),
     fingerprint |-> Some("f00d"), metadata |-> FullMetadata]

MkResult(cid, path, line, extra) ==
    [check_id |-> cid, path |-> path, start |-> [line |-> line],
     end |-> [line |-> line + 1], extra |-> extra]

FullResult == MkResult("r1", PathA, 1, FullExtra)

\* a record whose metadata carries "category": ["a"]
ListCategoryResult ==
    MkResult("r1", PathA, 1,
             [message |-> "msg", metadata |-> [category |-> ListValue]])

\* the rest of the document: every key present, or every key absent
FullEnvelope ==
    [version |-> JStr("1.50.0"),
     errors |-> <<[type |-> "Syntax error", path |-> "b.py", message |-> "bad"]>>,
     paths |-> [scanned |-> <<PathA, PathAB, PathB>>],
     time |-> [total |-> 3]]

WithResults(envelope, results) ==
    [k \in DOMAIN envelope \cup {"results"} |->
        IF k = "results" THEN results ELSE envelope[k]]

\* inputs that end the run early, present in every specification
FailingInputs ==
    {[kind |-> "missing"], [kind |-> "invalid"], [kind |-> "unreadable"],
     [kind |-> "json", doc |-> [version |-> JNum(1)]],
     [kind |-> "json",
      doc |-> [results |-> <<FullResult, Without(FullResult, "path")>>]],
     [kind |-> "json", doc |-> [results |-> <<ListCategoryResult>>]]}

JsonInputs(results) ==
    {[kind |-> "json", doc |-> WithResults(e, rs)] :
        e \in {EmptyDict, FullEnvelope}, rs \in results}

\* records that differ in the sort key and, with equal keys, in check_id:
\* ("a", 2) sorts before ("ab", 1), the path deciding before the line
SortLocations == {<<PathA, 1>>, <<PathA, 2>>, <<PathAB, 1>>}
SortResults ==
    {MkResult(cid, loc[1], loc[2], [message |-> "msg", severity |-> sev]) :
        cid \in {"r1", "r2"}, loc \in SortLocations,
        sev \in {"ERROR", "INFO", "UNKNOWN"}}

Severities == {"ERROR", "WARNING", "INFO", "UNKNOWN", "CRITICAL", "error"}

\* every severity label, and no severity
SeverityResults ==
    {MkResult("r1", PathA, 1, [message |-> "msg", severity |-> sev]) :
        sev \in Severities}
    \cup {MkResult("r1", PathA, 1, [message |-> "msg"])}

\* a record with every field, and the same record without one optional
\* field, without metadata, with an empty extra but for the message
OptionalResults ==
    {FullResult}
    \cup {MkResult("r1", PathA, 1, Without(FullExtra, k)) :
            k \in {"severity", "lines", "fingerprint", "metadata"}}
    \cup {MkResult("r1", PathA, 1,
                   [FullExtra EXCEPT !.metadata = Without(FullMetadata, k)]) :
            k \in DOMAIN FullMetadata}
    \cup {MkResult("r1", PathA, 1, [message |-> "msg"])}

\* the full record without one required field
MissingResults ==
    {Without(FullResult, k) : k \in {"check_id", "path", "start", "end", "extra"}}
    \cup {[FullResult EXCEPT !.start = EmptyDict],
          [FullResult EXCEPT !.end = EmptyDict],
          [FullResult EXCEPT !.extra = Without(FullExtra, "message")],
          [FullResult EXCEPT !.extra = [severity |-> "INFO"]],
          Without(Without(FullResult, "path"), "extra")}

ParseResultSet == SeverityResults \cup OptionalResults \cup MissingResults

InitWith(inputs) ==
    /\ input \in FailingInputs \cup inputs
    /\ outFile \in {"absent", "old"}
    /\ pc = "main"
    /\ data = Unset
    /\ report = Unset
    /\ html = Unset
    /\ error = Unset
    /\ handles = {}

\* the whole run, on documents of complete, of minimal and of incomplete
\* records
PipelineResultSet ==
    {FullResult, MkResult("r2", PathB, 2, [message |-> "msg"])}
    \cup MissingResults

Init == InitWith(JsonInputs(SeqsUpTo(PipelineResultSet, MaxParseLen)))
Spec == Init /\ [][Next]_vars

\* generate_report has opened a readable JSON file
InitLoaded(docs) ==
    /\ input \in {i \in FailingInputs : i.kind = "json"}
                 \cup {[kind |-> "json", doc |-> d] : d \in docs}
    /\ outFile = "absent"
    /\ pc = "loading"
    /\ data = Unset
    /\ report = Unset
    /\ html = Unset
    /\ error = Unset
    /\ handles = {"input"}

NextNormalize == Load \/ ParseOk \/ ParseFail

\* normalization alone, on documents that exercise _parse_finding
InitParse ==
    InitLoaded({WithResults(e, rs) :
                   e \in {EmptyDict, FullEnvelope},
                   rs \in SeqsUpTo(ParseResultSet, MaxParseLen)})
SpecParse == InitParse /\ [][NextNormalize]_vars

\* normalization alone, on documents that exercise the sort
InitSort ==
    InitLoaded({[results |-> rs] : rs \in SeqsUpTo(SortResults, MaxSortLen)})
SpecSort == InitSort /\ [][NextNormalize]_vars

\* normalization and aggregation, on documents that exercise the counters:
\* six rules, each with its own severity, confidence, category and file.
\* The i-th new rule of a document is the i-th of CheckIds, or the i-th
\* from the end, so that first-seen order is not tied to the order of names
MaxStatsLen == 7
CheckIds == <<"r1", "r2", "r3", "r4", "r5", "r6">>

StatsExtra ==
    <<[message |-> "msg", severity |-> "WARNING",
       metadata |-> [confidence |-> "HIGH", category |-> "security"]],
      [message |-> "msg", severity |-> "ERROR",
       metadata |-> [confidence |-> "LOW"]],
      [message |-> "msg",
       metadata |-> [confidence |-> "HIGH", category |-> "correctness"]],
      [message |-> "msg", severity |-> "ERROR", metadata |-> EmptyDict],
      [message |-> "msg", severity |-> "CRITICAL",
       metadata |-> [category |-> "security"]],
      [message |-> "msg", severity |-> "WARNING"]>>

StatsPath == <<PathB, PathA, PathA, PathAB, PathB, PathA>>

StatsResult(i) == MkResult(CheckIds[i], StatsPath[i], i, StatsExtra[i])

SeqMax(s) == IF s = << >> THEN 0 ELSE CHOOSE m \in {s[i] : i \in DOMAIN s} :
                                        \A i \in DOMAIN s : s[i] <= m

\* the sequences of length n over 1..Len(CheckIds) in which every number
\* first appears after all smaller ones
RECURSIVE Growth(_)
Growth(n) ==
    IF n = 0 THEN {<< >>}
    ELSE UNION {{Append(s, x) : x \in 1..Min(SeqMax(s) + 1, Len(CheckIds))} :
                   s \in Growth(n - 1)}

StatsDocs ==
    {[results |-> [i \in DOMAIN s |-> StatsResult(name[s[i]])]] :
        s \in UNION {Growth(n) : n \in 0..MaxStatsLen},
        name \in {[i \in 1..Len(CheckIds) |-> i],
                  [i \in 1..Len(CheckIds) |-> Len(CheckIds) + 1 - i]}}

NextAggregate == Load \/ ParseOk \/ ParseFail \/ HtmlOk \/ HtmlFail
InitStats == InitLoaded(StatsDocs)
SpecStats == InitStats /\ [][NextAggregate]_vars

\* normalization and aggregation, on documents that exercise the errors
\* array: error objects with every subset of the keys type, path, message
MaxErrorsLen == 2

FullError == [type |-> "Syntax error", path |-> "b.py", message |-> "bad"]

ErrorObjects ==
    {[k \in keys |-> FullError[k]] : keys \in SUBSET DOMAIN FullError}
    \cup {[type |-> "Timeout", path |-> "a.py", message |-> "slow"]}

ErrorsDocs ==
    LET results == {<< >>,
                    <<MkResult("r2", PathB, 2, [message |-> "msg"]),
                      FullResult>>}
    IN  {[results |-> rs, errors |-> es] :
            rs \in results, es \in SeqsUpTo(ErrorObjects, MaxErrorsLen)}
        \cup {[results |-> rs] : rs \in results}

InitErrors == InitLoaded(ErrorsDocs)
SpecErrors == InitErrors /\ [][NextAggregate]_vars

\* normalization and aggregation, on documents whose records tie in the
\* sort key and differ in check_id, confidence and category, so that the
\* order of the findings depends on the order of the records
MaxCommuteLen == 3

CommuteExtra ==
    {StatsExtra[1],
     [StatsExtra[1] EXCEPT !.metadata.category = "correctness"],
     StatsExtra[6]}

CommuteResults ==
    {MkResult(where[1], where[2], 1, extra) :
        where \in {<<"r1", PathA>>, <<"r2", PathA>>, <<"r2", PathB>>},
        extra \in CommuteExtra}

InitCommute ==
    InitLoaded({[results |-> rs] :
                   rs \in SeqsUpTo(CommuteResults, MaxCommuteLen)})
SpecCommute == InitCommute /\ [][NextAggregate]_vars

\* normalization and aggregation, on documents whose finding messages and
\* error messages are texts that the template itself contains
MaxEmbedLen == 2

EmbedTexts ==
    {"msg", "{{ report.version }}", "{% endif %}",
     "Interactive charts would be displayed here", "{{ errors_json|safe }}"}

EmbedResults == {MkResult("r1", PathA, 1, [message |-> t]) : t \in EmbedTexts}

EmbedErrors == {[message |-> t] : t \in EmbedTexts}

EmbedDocs ==
    {[results |-> rs, errors |-> es] :
        rs \in SeqsUpTo(EmbedResults, MaxEmbedLen),
        es \in {<< >>} \cup {<<e>> : e \in EmbedErrors}}

InitEmbed == InitLoaded(EmbedDocs)
SpecEmbed == InitEmbed /\ [][NextAggregate]_vars

-----------------------------------------------------------------------------
(* Properties of normalization *)

Normalized == report # Unset
Results == Get(data, "results", EmptyList)

\* the rank the specification gives a severity label
RankOf(sev) ==
    IF sev = "ERROR" THEN 0
    ELSE IF sev = "WARNING" THEN 1
    ELSE IF sev = "INFO" THEN 2
    ELSE 3

\* (rank, path, line) of a <= (rank, path, line) of b
TripleLeq(ra, pa, la, rb, pb, lb) ==
    \/ ra < rb
    \/ ra = rb /\ StrLess(pa, pb)
    \/ ra = rb /\ pa = pb /\ la <= lb

FindingLeq(f, g) ==
    TripleLeq(RankOf(f.severity), f.path, f.start_line,
              RankOf(g.severity), g.path, g.start_line)

\* the sort key of a raw record that has its required fields
RawSeverity(r) == Get(r["extra"], "severity", "UNKNOWN")
RawKey(r) == <<RankOf(RawSeverity(r)), r["path"], r["start"]["line"]>>
FindingKey(f) == <<RankOf(f.severity), f.path, f.start_line>>

\* C1: the findings of a Report are sorted ascending by
\* (severity_rank, path, start_line): each finding's key is less than or
\* equal to the key of the next one.
C1_FindingsSorted ==
    Normalized =>
        \A i \in 1..(Len(report.findings) - 1) :
            FindingLeq(report.findings[i], report.findings[i + 1])

\* three records arrived with strictly descending keys and were normalized
C1_Witness ==
    /\ Normalized
    /\ Len(Results) = 3
    /\ \A i \in 1..2 :
        /\ RawKey(Results[i]) # RawKey(Results[i + 1])
        /\ TripleLeq(RawKey(Results[i + 1])[1], RawKey(Results[i + 1])[2],
                     RawKey(Results[i + 1])[3], RawKey(Results[i])[1],
                     RawKey(Results[i])[2], RawKey(Results[i])[3])
    /\ \E i, j \in 1..3 : RawKey(Results[i])[1] # RawKey(Results[j])[1]
    /\ \E i, j \in 1..3 : RawKey(Results[i])[2] # RawKey(Results[j])[2]

CheckIdsOfKey(seq, KeyOf(_), k) ==
    LET HasKey(x) == KeyOf(x) = k
        sel == SelectSeq(seq, HasKey)
    IN  [i \in 1..Len(sel) |-> sel[i]["check_id"]]

\* C2: the sort is stable: the findings that share one (severity, path,
\* start_line) appear in the order in which their records appear in results.
C2_SortStable ==
    Normalized =>
        \A n \in 1..Len(Results) :
            CheckIdsOfKey(report.findings, FindingKey, RawKey(Results[n]))
                = CheckIdsOfKey(Results, RawKey, RawKey(Results[n]))

\* two records with one key and different check_ids, the later-named first,
\* followed by a record that sorts before both
C2_Witness ==
    /\ Normalized
    /\ Len(Results) = 3
    /\ RawKey(Results[1]) = RawKey(Results[2])
    /\ Results[1]["check_id"] = "r2"
    /\ Results[2]["check_id"] = "r1"
    /\ RawKey(Results[3]) # RawKey(Results[1])
    /\ report.findings[1].path = Results[3]["path"]
    /\ report.findings[1].start_line = Results[3]["start"]["line"]
    /\ report.findings[1].severity = RawSeverity(Results[3])

\* the required fields of a record, and of a finding
RequiredOfRecord(r) ==
    <<r["check_id"], r["path"], r["start"]["line"], r["end"]["line"],
      r["extra"]["message"]>>
RequiredOfFinding(f) ==
    <<f.check_id, f.path, f.start_line, f.end_line, f.message>>

CountIn(seq, F(_), v) == Cardinality({i \in 1..Len(seq) : F(seq[i]) = v})

\* C3: a Report has one finding per record of results, and the findings
\* are a permutation of the records as far as check_id, path, start line,
\* end line and message go: each combination of these occurs as often among
\* the findings as among the records.
C3_OneFindingPerRecord ==
    Normalized =>
        /\ Len(report.findings) = Len(Results)
        /\ \A n \in 1..Len(Results) :
            LET t == RequiredOfRecord(Results[n]) IN
            CountIn(report.findings, RequiredOfFinding, t)
                = CountIn(Results, RequiredOfRecord, t)

\* a record occurs twice and another once, and the sort moved them
C3_Witness ==
    /\ Normalized
    /\ Len(Results) = 3
    /\ Results[1] = Results[3]
    /\ Results[2] # Results[1]
    /\ RequiredOfFinding(report.findings[1]) = RequiredOfRecord(Results[2])

\* the record has every required field
Complete(r) ==
    /\ {"check_id", "path", "start", "end", "extra"} \subseteq DOMAIN r
    /\ "line" \in DOMAIN r["start"]
    /\ "line" \in DOMAIN r["end"]
    /\ "message" \in DOMAIN r["extra"]

\* C4: severity_order is 0 for "ERROR", 1 for "WARNING", 2 for "INFO" and 3
\* for "UNKNOWN" and any other label; a label outside the known three is
\* no error, and the finding keeps it as it was written.
C4_SeverityOrder ==
    /\ Normalized =>
        /\ \A i \in 1..Len(report.findings) :
            LET f == report.findings[i] IN
            /\ f.severity = "ERROR" => severity_order(f) = 0
            /\ f.severity = "WARNING" => severity_order(f) = 1
            /\ f.severity = "INFO" => severity_order(f) = 2
            /\ f.severity \notin {"ERROR", "WARNING", "INFO"}
                  => severity_order(f) = 3
        /\ \A n \in 1..Len(Results) :
            LET SeverityOf(f) == f.severity
                sev == RawSeverity(Results[n])
            IN  CountIn(report.findings, SeverityOf, sev)
                    = CountIn(Results, RawSeverity, sev)
    /\ (pc = "exit1" /\ error.type = "KeyError") =>
        \E n \in 1..Len(Results) : ~Complete(Results[n])

\* a document with the labels "CRITICAL" and "error" was normalized
C4_Witness ==
    /\ Normalized
    /\ Len(report.findings) = 2
    /\ {report.findings[i].severity : i \in 1..2} = {"CRITICAL", "error"}
    /\ \A i \in 1..2 : severity_order(report.findings[i]) = 3

\* C5: if a record of results, at any position, lacks a required field,
\* normalization fails as a whole: no Report is returned, whatever was
\* normalized from the records before it, and the run ends with the error.
C5_NoPartialReport ==
    (data # Unset /\ \E n \in 1..Len(Results) : ~Complete(Results[n])) =>
        /\ report = Unset
        /\ html = Unset
        /\ pc \in {"parse", "exit1"}
        /\ pc = "exit1" => error.type = "KeyError"

\* the run ended on the second record, the first one being complete
C5_Witness ==
    /\ pc = "exit1"
    /\ data # Unset
    /\ Len(Results) = 2
    /\ Complete(Results[1])
    /\ ~Complete(Results[2])
    /\ report = Unset

FatalBeforeWrite ==
    /\ pc = "exit1"
    /\ error.type \in {"JSONDecodeError", "KeyError", "TypeError"}

\* C6: a run that ends on invalid JSON, on a missing required field or on
\* a failure of the HTML generation leaves the output file as it found it;
\* the output file changes only in the write step, which is taken after
\* loading, normalization and HTML generation have succeeded.
C6_NoArtifactOnFatal ==
    /\ [](FatalBeforeWrite => outFile \in {"absent", "old"})
    /\ [][outFile' # outFile =>
            /\ pc \in {"write", "writing"}
            /\ data # Unset /\ report # Unset /\ html # Unset
            /\ error = Unset]_vars

\* the HTML generation failed and the existing output file is untouched
C6_Witness ==
    /\ pc = "exit1"
    /\ error = TypeError
    /\ report # Unset
    /\ outFile = "old"

FirstBad(results) ==
    CHOOSE n \in 1..Len(results) :
        /\ ~Complete(results[n])
        /\ \A m \in 1..(n - 1) : Complete(results[m])

\* C7 as stated: the error of a missing required field identifies the
\* position of the offending record, so that two documents that fail with
\* the same error fail on the same position.
C7_ErrorIdentifiesPosition ==
    (pc = "exit1" /\ error.type = "KeyError") =>
        \A rs \in SeqsUpTo(MissingResults \cup {FullResult}, MaxParseLen) :
            LET r == _parse_semgrep_data([results |-> rs]) IN
            (~r.ok /\ r.exc = error) => FirstBad(rs) = FirstBad(Results)

\* the first key _parse_finding reads that record r lacks
FirstMissing(r) ==
    IF "check_id" \notin DOMAIN r THEN "check_id"
    ELSE IF "path" \notin DOMAIN r THEN "path"
    ELSE IF "start" \notin DOMAIN r THEN "start"
    ELSE IF "line" \notin DOMAIN r["start"] THEN "line"
    ELSE IF "end" \notin DOMAIN r THEN "end"
    ELSE IF "line" \notin DOMAIN r["end"] THEN "line"
    ELSE "message"

\* C7, amended: the error of a missing required field is a KeyError that
\* names the first key the first offending record lacks, and nothing else.
C7_ErrorNamesMissingKey ==
    (pc = "exit1" /\ error.type = "KeyError") =>
        /\ DOMAIN error = {"type", "key"}
        /\ error.key = FirstMissing(Results[FirstBad(Results)])

\* the second record lacks path and extra: the error names path
C7_Witness ==
    /\ pc = "exit1"
    /\ error = KeyError("path")
    /\ Len(Results) = 2
    /\ Complete(Results[1])
    /\ DOMAIN Results[2] = {"check_id", "start", "end"}

\* the finding the specification documents for a complete record
Documented(r) ==
    LET extra == r["extra"]
        HasMeta(k) == "metadata" \in DOMAIN extra /\ k \in DOMAIN extra["metadata"]
        Meta(k, default) == IF HasMeta(k) THEN extra["metadata"][k] ELSE default
    IN  [check_id |-> r["check_id"],
         path |-> r["path"],
         start_line |-> r["start"]["line"],
         end_line |-> r["end"]["line"],
         severity |-> IF "severity" \in DOMAIN extra
                      THEN extra["severity"] ELSE "UNKNOWN",
         confidence |-> Meta("confidence", "UNKNOWN"),
         message |-> extra["message"],
         category |-> Meta("category", "unknown"),
         technology |-> Meta("technology", << >>),
         cwe |-> Meta("cwe", << >>),
         owasp |-> Meta("owasp", << >>),
         references |-> Meta("references", << >>),
         shortlink |-> Meta("shortlink", {}),
         lines |-> IF "lines" \in DOMAIN extra THEN extra["lines"] ELSE {},
         fingerprint |-> IF "fingerprint" \in DOMAIN extra
                         THEN extra["fingerprint"] ELSE {}]

\* C8: a record with the required fields never fails for an absent
\* optional field, extra.metadata as a whole included; its finding has
\* "UNKNOWN" for an absent severity or confidence, "unknown" for category,
\* empty sequences for technology, cwe, owasp and references, and null for
\* shortlink, lines and fingerprint.
C8_OptionalDefaults ==
    /\ (data # Unset /\ pc \notin {"parse"}
            /\ \A n \in 1..Len(Results) : Complete(Results[n]))
          => /\ Normalized
             /\ \A n \in 1..Len(Results) :
                 \E i \in 1..Len(report.findings) :
                     report.findings[i] = Documented(Results[n])
    /\ Normalized =>
        \A i \in 1..Len(report.findings) :
            \E n \in 1..Len(Results) :
                report.findings[i] = Documented(Results[n])

\* a record without metadata and a record with nothing but the required
\* fields were normalized
C8_Witness ==
    /\ Normalized
    /\ Len(Results) = 2
    /\ DOMAIN Results[1]["extra"] = {"message", "severity", "lines", "fingerprint"}
    /\ DOMAIN Results[2]["extra"] = {"message"}
    /\ \E i \in 1..2 :
        /\ report.findings[i].severity = "UNKNOWN"
        /\ report.findings[i].confidence = "UNKNOWN"
        /\ report.findings[i].category = "unknown"
        /\ report.findings[i].technology = << >>
        /\ report.findings[i].shortlink = {}
        /\ report.findings[i].lines = {}

-----------------------------------------------------------------------------
(* Properties of aggregation *)

Aggregated == html # Unset
Stats == html.stats
Findings == report.findings

RECURSIVE SumOfCounts(_)
SumOfCounts(b) == IF b = << >> THEN 0 ELSE Head(b)[2] + SumOfCounts(Tail(b))

\* breakdown b maps each value field F takes among the findings, and
\* nothing else, to the number of findings that have it
IsBreakdownOf(b, F(_)) ==
    /\ \A i, j \in 1..Len(b) : b[i][1] = b[j][1] => i = j
    /\ \A i \in 1..Len(b) :
        /\ b[i][2] >= 1
        /\ b[i][2] = CountIn(Findings, F, b[i][1])
    /\ \A n \in 1..Len(Findings) : \E i \in 1..Len(b) : b[i][1] = F(Findings[n])
    /\ SumOfCounts(b) = Len(Findings)

SeverityOf(f) == f.severity
ConfidenceOf(f) == f.confidence
CategoryOf(f) == f.category
CheckIdOf(f) == f.check_id

\* C9: severity_breakdown, confidence_breakdown and category_breakdown map
\* every value observed among the findings to the number of findings with
\* that value, default values being buckets like any other; the counts of
\* each breakdown add up to len(findings), which is total_findings.
C9_BreakdownsCountEveryFinding ==
    Aggregated =>
        /\ IsBreakdownOf(Stats.severity_breakdown, SeverityOf)
        /\ IsBreakdownOf(Stats.confidence_breakdown, ConfidenceOf)
        /\ IsBreakdownOf(Stats.category_breakdown, CategoryOf)
        /\ Stats.total_findings = Len(Findings)

\* seven findings over three severities, with buckets of more than one
\* finding and the default buckets "UNKNOWN" and "unknown"
C9_Witness ==
    /\ Aggregated
    /\ Len(Findings) = 7
    /\ Len(Stats.severity_breakdown) >= 3
    /\ \E i \in 1..Len(Stats.severity_breakdown) :
        Stats.severity_breakdown[i] = <<"UNKNOWN", 2>>
    /\ \E i \in 1..Len(Stats.confidence_breakdown) :
        /\ Stats.confidence_breakdown[i][1] = "UNKNOWN"
        /\ Stats.confidence_breakdown[i][2] >= 2
    /\ \E i \in 1..Len(Stats.category_breakdown) :
        /\ Stats.category_breakdown[i][1] = "unknown"
        /\ Stats.category_breakdown[i][2] >= 2

DistinctCheckIds == {Findings[n].check_id : n \in 1..Len(Findings)}

\* C10: top_issues has min(5, number of distinct check_ids) entries, in
\* order of non-increasing count; each entry carries the number of
\* findings with its check_id, and no check_id left out occurs more often
\* than one that is included.
C10_TopIssues ==
    Aggregated =>
        LET top == Stats.top_issues
            included == {top[i][1] : i \in 1..Len(top)}
        IN  /\ Len(top) = Min(5, Cardinality(DistinctCheckIds))
            /\ Len(top) <= 5
            /\ \A i, j \in 1..Len(top) : top[i][1] = top[j][1] => i = j
            /\ \A i \in 1..(Len(top) - 1) : top[i][2] >= top[i + 1][2]
            /\ \A i \in 1..Len(top) :
                top[i][2] = CountIn(Findings, CheckIdOf, top[i][1])
            /\ \A id \in DistinctCheckIds \ included :
                \A i \in 1..Len(top) :
                    top[i][2] >= CountIn(Findings, CheckIdOf, id)

\* six check_ids, one of them twice: five are listed, the one that occurs
\* twice first, and the one left out occurs once
C10_Witness ==
    /\ Aggregated
    /\ Cardinality(DistinctCheckIds) = 6
    /\ Len(Findings) = 7
    /\ Len(Stats.top_issues) = 5
    /\ Stats.top_issues[1][2] = 2
    /\ Stats.top_issues[5][2] = 1
    /\ Findings[1].check_id # Stats.top_issues[1][1]

\* the position of the first finding with check_id id
FirstSeen(id) ==
    CHOOSE n \in 1..Len(Findings) :
        /\ Findings[n].check_id = id
        /\ \A m \in 1..(n - 1) : Findings[m].check_id # id

IdIndex(id) == CHOOSE i \in 1..Len(CheckIds) : CheckIds[i] = id

\* C11: check_ids of equal count are ranked in top_issues in the order of
\* their first occurrence among the findings, and when such a tie reaches
\* across the cut at 5 the ones seen first are the ones kept.
C11_TiesByFirstSeen ==
    Aggregated =>
        LET top == Stats.top_issues
            included == {top[i][1] : i \in 1..Len(top)}
        IN  /\ \A i, j \in 1..Len(top) :
                (i < j /\ top[i][2] = top[j][2])
                    => FirstSeen(top[i][1]) < FirstSeen(top[j][1])
            /\ \A id \in DistinctCheckIds \ included :
                \A i \in 1..Len(top) :
                    top[i][2] = CountIn(Findings, CheckIdOf, id)
                        => FirstSeen(top[i][1]) < FirstSeen(id)

\* the position of the first input record with check_id id
FirstInInput(id) ==
    CHOOSE n \in 1..Len(Results) :
        /\ Results[n]["check_id"] = id
        /\ \A m \in 1..(n - 1) : Results[m]["check_id"] # id

\* six check_ids: the fifth entry ties with the one left out, which came
\* before it in the input, and two tied entries are listed against name order
C11_Witness ==
    /\ Aggregated
    /\ Cardinality(DistinctCheckIds) = 6
    /\ LET top == Stats.top_issues
           out == CHOOSE id \in DistinctCheckIds :
                      \A i \in 1..Len(top) : top[i][1] # id
       IN  /\ Len(top) = 5
           /\ top[1][2] = 2
           /\ top[5][2] = CountIn(Findings, CheckIdOf, out)
           /\ FirstInInput(out) < FirstInInput(top[5][1])
           /\ \E i, j \in 1..5 :
               /\ i < j
               /\ top[i][2] = top[j][2]
               /\ IdIndex(top[i][1]) > IdIndex(top[j][1])

PathsOf(fs) == {fs[n].path : n \in 1..Len(fs)}

\* C12: files_affected is the number of distinct paths among the findings:
\* never more than len(findings), equal to it exactly when no two findings
\* share a path; with no results it is 0, the breakdowns and top_issues
\* being empty.
C12_FilesAffected ==
    Aggregated =>
        /\ Stats.files_affected = Cardinality(PathsOf(Findings))
        /\ Stats.files_affected <= Len(Findings)
        /\ Stats.files_affected = Len(Findings)
            <=> \A m, n \in 1..Len(Findings) :
                    Findings[m].path = Findings[n].path => m = n
        /\ Results = << >> =>
            /\ Findings = << >>
            /\ Stats.files_affected = 0
            /\ Stats.severity_breakdown = << >>
            /\ Stats.confidence_breakdown = << >>
            /\ Stats.category_breakdown = << >>
            /\ Stats.top_issues = << >>

\* five findings in three files
C12_Witness ==
    /\ Aggregated
    /\ Len(Findings) = 5
    /\ Stats.files_affected = 3
    /\ Findings[1].path = Findings[2].path

-----------------------------------------------------------------------------
(* Properties of the generated page *)

Text == html.text

\* the values of a sequence in the order of their first occurrence
RECURSIVE FirstSeenOrder(_)
FirstSeenOrder(values) ==
    IF values = << >> THEN << >>
    ELSE LET rest == FirstSeenOrder(SubSeq(values, 1, Len(values) - 1))
             v == values[Len(values)]
         IN  IF \E i \in 1..Len(rest) : rest[i] = v
             THEN rest
             ELSE Append(rest, v)

\* the keys of a breakdown, in iteration order
Keys(breakdown) == [i \in 1..Len(breakdown) |-> breakdown[i][1]]

\* the pieces of text that come right after an occurrence of piece
Following(text, piece) ==
    LET at == SelectSeq([i \in 1..Len(text) |-> i],
                        LAMBDA i : i > 1 /\ text[i - 1] = piece)
    IN  [k \in 1..Len(at) |-> text[at[k]]]

\* C13: the keys of each breakdown come in the order in which their values
\* are first seen among the findings, and the page has one category option
\* per distinct category, in the key order of category_breakdown.
C13_BreakdownKeyOrder ==
    Aggregated =>
        /\ Keys(Stats.severity_breakdown)
               = FirstSeenOrder(Field(Findings, "severity"))
        /\ Keys(Stats.confidence_breakdown)
               = FirstSeenOrder(Field(Findings, "confidence"))
        /\ Keys(Stats.category_breakdown)
               = FirstSeenOrder(Field(Findings, "category"))
        /\ LET options == Following(Text, [lit |-> "<option value=\""])
               keys == Keys(Stats.category_breakdown)
           IN  /\ Len(options) = Cardinality({Findings[n].category :
                                                 n \in 1..Len(Findings)})
               /\ options = [k \in 1..Len(keys) |-> [lit |-> keys[k]]]

\* three categories, first seen in an order that is not the alphabetical one
C13_Witness ==
    /\ Aggregated
    /\ Keys(Stats.category_breakdown) = <<"unknown", "security", "correctness">>
    /\ Following(Text, [lit |-> "<option value=\""])
           = <<[lit |-> "unknown"], [lit |-> "security"],
               [lit |-> "correctness"]>>

FindingFields ==
    <<"check_id", "path", "start_line", "end_line", "severity", "confidence",
      "message", "category", "technology", "cwe", "owasp", "references",
      "shortlink", "lines", "fingerprint">>

\* the JSON value j is what the field `name` of finding f serializes to
SerializedAs(j, f, name) ==
    IF name \in {"start_line", "end_line"} THEN j = [num |-> f[name]]
    ELSE IF name \in {"technology", "cwe", "owasp", "references"}
    THEN /\ DOMAIN j = {"arr"}
         /\ Len(j.arr) = Len(f[name])
         /\ \A i \in 1..Len(f[name]) : j.arr[i] = [jstr |-> f[name][i]]
    ELSE IF name \in {"shortlink", "lines", "fingerprint"}
    THEN IF f[name] = None
         THEN j = [null |-> TRUE]
         ELSE \E v \in f[name] : j = [jstr |-> v]
    ELSE j = [jstr |-> f[name]]

\* C14: the findings payload has one entry per finding, in the order of the
\* sorted findings of the report, and each entry has exactly the fifteen
\* fields of a finding, in the documented order, with the finding's values,
\* null standing for an absent optional field.
C14_FindingsPayload ==
    Aggregated =>
        LET payload == html.findings_json
        IN  /\ Len(payload) = Len(Findings)
            /\ \A i \in 1..Len(payload) :
                /\ [k \in 1..Len(payload[i]) |-> payload[i][k][1]]
                       = FindingFields
                /\ \A k \in 1..Len(FindingFields) :
                       SerializedAs(payload[i][k][2], Findings[i],
                                    FindingFields[k])

\* two findings that the sort exchanged, one with every optional field and
\* one with none
C14_Witness ==
    /\ Aggregated
    /\ Len(Findings) = 2
    /\ Results[1]["check_id"] = "r2"
    /\ html.findings_json[1][1] = <<"check_id", [jstr |-> "r1"]>>
    /\ html.findings_json[1][13] = <<"shortlink", [jstr |-> "https://sg.run/x"]>>
    /\ html.findings_json[2][13] = <<"shortlink", [null |-> TRUE]>>
    /\ html.findings_json[2][15] = <<"fingerprint", [null |-> TRUE]>>

InputErrors == Get(data, "errors", EmptyList)

\* C15: the errors of the document are passed through: Report.errors is
\* the input errors array (empty when the key is absent), whatever the
\* sort does to the findings, the errors payload has the same objects with
\* the same fields in the same order, and total_errors is its length.
C15_ErrorsPassedThrough ==
    /\ Normalized => report.errors = InputErrors
    /\ Aggregated =>
        LET payload == html.errors_json
        IN  /\ Stats.total_errors = Len(InputErrors)
            /\ Len(payload) = Len(InputErrors)
            /\ \A i \in 1..Len(InputErrors) :
                /\ DOMAIN payload[i] = DOMAIN InputErrors[i]
                /\ \A k \in DOMAIN InputErrors[i] :
                       payload[i][k] = [jstr |-> InputErrors[i][k]]

\* two different errors, the first one with a message only, in a document
\* whose two findings the sort exchanged
C15_Witness ==
    /\ Aggregated
    /\ Len(InputErrors) = 2
    /\ DOMAIN InputErrors[1] = {"message"}
    /\ InputErrors[2] = FullError
    /\ html.errors_json[2]["path"] = [jstr |-> "b.py"]
    /\ Len(Findings) = 2
    /\ Results[1]["check_id"] # Findings[1].check_id

\* the positions of the generated rows in the page
RowStarts ==
    SelectSeq([i \in 1..Len(Text) |-> i], LAMBDA i : Text[i] = [lit |-> "<tr>"])

Cell(e, key) == [lit |-> IF key \in DOMAIN e THEN e[key] ELSE "Unknown"]

\* C20: for a non-empty errors array the page has one row per error, in
\* input order, whose cells are the type, path and message of the error,
\* "Unknown" standing for a key the error lacks; such an error never makes
\* the generation fail.
C20_ErrorRows ==
    (Normalized /\ InputErrors # << >>) =>
        /\ pc # "exit1"
        /\ Aggregated =>
            /\ Len(RowStarts) = Len(InputErrors)
            /\ \A n \in 1..Len(InputErrors) :
                /\ Text[RowStarts[n] + 1] = Cell(InputErrors[n], "type")
                /\ Text[RowStarts[n] + 2] = Cell(InputErrors[n], "path")
                /\ Text[RowStarts[n] + 3] = Cell(InputErrors[n], "message")
                /\ Text[RowStarts[n] + 4] = [lit |-> "</tr>"]

\* an error without any key, rendered before a complete one
C20_Witness ==
    /\ Aggregated
    /\ Len(InputErrors) = 2
    /\ DOMAIN InputErrors[1] = {}
    /\ InputErrors[2] = FullError
    /\ Text[RowStarts[1] + 1] = [lit |-> "Unknown"]
    /\ Text[RowStarts[1] + 3] = [lit |-> "Unknown"]
    /\ Text[RowStarts[2] + 2] = [lit |-> "b.py"]

\* C16 as stated: no error originates in the aggregation step; for every
\* Report that _parse_semgrep_data returns, summary_stats and the two
\* payloads are computed without an error being raised.
C16_AggregationNeverRaises ==
    Normalized => summary_stats(report).ok

\* C17: once _parse_semgrep_data has returned, the Report stays what it
\* returned: summary_stats, _generate_html and the write leave version,
\* findings and their order, errors, scanned_paths, total_files_scanned
\* and scan_time as they were, and total_files_scanned is
\* len(scanned_paths) throughout.
C17_ReportImmutable ==
    Normalized =>
        /\ report = _parse_semgrep_data(data).val
        /\ report.total_files_scanned = Len(report.scanned_paths)

\* the page of a report with findings, errors and scanned paths was written
C17_Witness ==
    /\ pc = "exit0"
    /\ Len(report.findings) = 2
    /\ report.errors # << >>
    /\ Len(report.scanned_paths) = 3
    /\ report.total_files_scanned = 3
    /\ report.scan_time # EmptyDict

\* C18: at most one file is open at a time, and only inside its with
\* block: no handle is open when the run has ended, successfully or not,
\* nor at the points where the next file is opened.
C18_HandlesClosed ==
    /\ Cardinality(handles) <= 1
    /\ pc \in {"exit0", "exit1"} => handles = {}
    /\ pc \in {"main", "load", "write"} => handles = {}
    /\ handles # {} => pc \in {"validate", "loading", "writing"}
    /\ pc = "validate" => handles = {"validation"}
    /\ pc = "loading" => handles = {"input"}
    /\ pc = "writing" => handles = {"output"}

\* the run ended on a failed write, after three files were opened
C18_Witness ==
    /\ pc = "exit1"
    /\ html # Unset
    /\ outFile = "partial"
    /\ error = OSError
    /\ handles = {}

\* the stats of the document whose results are those of data, reordered
StatsOfPermuted(perm) ==
    LET rs == [i \in 1..Len(Results) |-> Results[perm[i]]]
        r == _parse_semgrep_data([data EXCEPT !["results"] = rs]).val
    IN  summary_stats(r).val

Pairs(breakdown) == {breakdown[i] : i \in 1..Len(breakdown)}

\* C19: two documents whose results are permutations of each other have
\* the same total_findings and files_affected, the same counts in the
\* three breakdowns and the same count for every check_id.
C19_AggregationCommutes ==
    Aggregated =>
        \A perm \in Permutations(1..Len(Results)) :
            \E other \in {StatsOfPermuted(perm)} :
                /\ other.total_findings = Stats.total_findings
                /\ other.files_affected = Stats.files_affected
                /\ Pairs(other.severity_breakdown)
                       = Pairs(Stats.severity_breakdown)
                /\ Pairs(other.confidence_breakdown)
                       = Pairs(Stats.confidence_breakdown)
                /\ Pairs(other.category_breakdown)
                       = Pairs(Stats.category_breakdown)
                /\ Pairs(other.top_issues) = Pairs(Stats.top_issues)

\* three records in two files, of which a reordering changes the order of
\* the findings and of the keys of category_breakdown
C19_Witness ==
    /\ Aggregated
    /\ Len(Results) = 3
    /\ Stats.files_affected = 2
    /\ \E perm \in Permutations(1..Len(Results)) :
        \E other \in {StatsOfPermuted(perm)} :
            /\ other.category_breakdown # Stats.category_breakdown
            /\ Pairs(other.category_breakdown)
                   = Pairs(Stats.category_breakdown)


\* the pieces of the error section that the page of a report without errors
\* would have to lack: its heading, its table and the cells of its row
ErrorSectionPieces ==
    {[lit |-> "<h3>Scan Errors ("], [lit |-> "<thead>"],
     [lit |-> "{{ error.type }}"], [lit |-> "{{ error.path }}"],
     [lit |-> "{{ error.message }}"]}

\* C22: when the report has no errors the error section is removed from the
\* page: the page has no scan-errors heading, no errors table and none of
\* the error-row placeholders {{ error.type }}, {{ error.path }},
\* {{ error.message }}.
C22_ErrorSectionRemoved ==
    (Aggregated /\ report.errors = << >>) =>
        \A i \in 1..Len(Text) : Text[i] \notin ErrorSectionPieces


\* C21: the serialized payloads are embedded verbatim: whatever the strings
\* of the input are, texts of the template included, what the page has after
\* "const findings = " is the findings payload and what it has after
\* "const errors = " is the errors payload, no later substitution having
\* altered them.
C21_PayloadsEmbeddedVerbatim ==
    Aggregated =>
        /\ Following(Text, [lit |-> "const findings = "])
               = <<Json(JsonFindings(html.findings_json))>>
        /\ Following(Text, [lit |-> "const errors = "])
               = <<Json(JsonErrors(html.errors_json))>>

====
